---------------------------- MODULE Spec2Model ----------------------------
(***************************************************************************)
(* commitlint: the command-line driver (src/commitlint/cli.py), the        *)
(* process-wide header-max-length configuration and the exemption patterns *)
(* (src/commitlint/constants.py), and the lint facade the driver calls.    *)
(*                                                                         *)
(* A commit message is a sequence of one-character strings.  The regular   *)
(* expressions of the program are kept as syntax trees and matched by a    *)
(* small backtracking-free matcher (sets of end positions), with Python's  *)
(* re semantics: "." excludes the newline, "$" matches at the end and      *)
(* before a final newline, re.match anchors the match at position 1.       *)
(***************************************************************************)
EXTENDS Integers, Sequences, FiniteSets, TLC

(***************************************************************************)
(* Characters and strings                                                  *)
(***************************************************************************)
NL == "\n"
CR == "\r"
\* Python's str.isspace / the class \s, on the characters used here.
Whitespace == {" ", "\t", "\n", "\r", "\f"}

UpperLetters == {"A","B","C","D","E","F","G","H","I","J","K","L","M",
                 "N","O","P","Q","R","S","T","U","V","W","X","Y","Z"}

\* str.lstrip(), str.rstrip() and str.strip() with no argument.
RECURSIVE LStrip(_)
LStrip(s) ==
    IF s # <<>> /\ Head(s) \in Whitespace THEN LStrip(Tail(s)) ELSE s

RECURSIVE RStrip(_)
RStrip(s) ==
    IF s # <<>> /\ s[Len(s)] \in Whitespace
    THEN RStrip(SubSeq(s, 1, Len(s) - 1))
    ELSE s

Strip(s) == RStrip(LStrip(s))

\* Position of the first newline of s at or after i, Len(s) + 1 when none.
RECURSIVE LineEnd(_, _)
LineEnd(s, i) ==
    IF i > Len(s) \/ s[i] = NL THEN i ELSE LineEnd(s, i + 1)

\* s.split("\n"): the lines of s, without their newlines.
RECURSIVE SplitLines(_, _)
SplitLines(s, i) ==
    LET e == LineEnd(s, i)
    IN  IF e > Len(s)
        THEN <<SubSeq(s, i, Len(s))>>
        ELSE <<SubSeq(s, i, e - 1)>> \o SplitLines(s, e + 1)

\* "\n".join(lines)
RECURSIVE JoinLines(_)
JoinLines(ls) ==
    IF ls = <<>> THEN <<>>
    ELSE IF Len(ls) = 1 THEN ls[1]
    ELSE ls[1] \o <<NL>> \o JoinLines(Tail(ls))

\* c repeated n times.
RECURSIVE Repeat(_, _)
Repeat(c, n) == IF n <= 0 THEN <<>> ELSE <<c>> \o Repeat(c, n - 1)

(***************************************************************************)
(* Regular expressions: syntax trees and re.match                          *)
(***************************************************************************)
Lit(s)     == [t |-> "lit", s |-> s]       \* the literal text s
Set(S)     == [t |-> "set", S |-> S]       \* [...]
NotSet(S)  == [t |-> "nset", S |-> S]      \* [^...]
Dot        == [t |-> "nset", S |-> {NL}]   \* .   (no DOTALL)
Cat(rs)    == [t |-> "cat", rs |-> rs]     \* r1 r2 ...
Alt(rs)    == [t |-> "alt", rs |-> rs]     \* r1|r2|...
Star(r)    == [t |-> "star", r |-> r]      \* r*  and r*?
Plus(r)    == [t |-> "cat", rs |-> <<r, [t |-> "star", r |-> r]>>]   \* r+
Opt(r)     == [t |-> "alt", rs |-> <<r, [t |-> "lit", s |-> <<>>]>>] \* r?
Bol        == [t |-> "bol"]                \* ^   (no MULTILINE)
Eol        == [t |-> "eol"]                \* $   (no MULTILINE)

\* Ends(r, s, I): the positions j such that r matches s[i..j-1] for a start
\* position i in I.
RECURSIVE Ends(_, _, _)
RECURSIVE CatEnds(_, _, _, _)
RECURSIVE StarEnds(_, _, _, _)

Ends(r, s, I) ==
    CASE r.t = "lit"  ->
           {i + Len(r.s) : i \in {j \in I : /\ j + Len(r.s) - 1 <= Len(s)
                                           /\ SubSeq(s, j, j + Len(r.s) - 1) = r.s}}
      [] r.t = "set"  -> {i + 1 : i \in {j \in I : j <= Len(s) /\ s[j] \in r.S}}
      [] r.t = "nset" -> {i + 1 : i \in {j \in I : j <= Len(s) /\ s[j] \notin r.S}}
      [] r.t = "cat"  -> CatEnds(r.rs, 1, s, I)
      [] r.t = "alt"  -> UNION {Ends(r.rs[k], s, I) : k \in DOMAIN r.rs}
      [] r.t = "star" -> StarEnds(r.r, s, I, I)
      [] r.t = "bol"  -> I \cap {1}
      [] r.t = "eol"  -> {i \in I : \/ i = Len(s) + 1
                                    \/ i = Len(s) /\ s[i] = NL}

CatEnds(rs, k, s, I) ==
    IF k > Len(rs) \/ I = {} THEN I
    ELSE CatEnds(rs, k + 1, s, Ends(rs[k], s, I))

StarEnds(r, s, frontier, acc) ==
    LET new == Ends(r, s, frontier) \ acc
    IN  IF new = {} THEN acc ELSE StarEnds(r, s, new, acc \cup new)

\* bool(re.match(r, s))
ReMatch(r, s) == Ends(r, s, {1}) # {}

(***************************************************************************)
(* constants.py                                                            *)
(***************************************************************************)
DEFAULT_HEADER_MAX_LENGTH == 72

\* The type vocabulary, in the order of the source.
COMMIT_TYPES ==
    << <<"b","u","i","l","d">>,
       <<"c","i">>,
       <<"d","o","c","s">>,
       <<"f","e","a","t">>,
       <<"f","i","x">>,
       <<"p","e","r","f">>,
       <<"r","e","f","a","c","t","o","r">>,
       <<"s","t","y","l","e">>,
       <<"t","e","s","t">>,
       <<"c","h","o","r","e">>,
       <<"r","e","v","e","r","t">>,
       <<"b","u","m","p">> >>

AnyText     == Star(Dot)                               \* (.*?) and (.*)
NewlinesEnd == Cat(<<Star(Cat(<<Opt(Lit(<<CR>>)), Lit(<<NL>>)>>)), Eol>>)
                                                       \* (?:\r?\n)*$
NonSpaces   == Plus(NotSet(Whitespace))                \* [^\s]+

\* ^((Merge pull request)|(Merge (.*?) into (.*?)|(Merge branch (.*?)))(?:\r?\n)*$)
PatMerge ==
    Cat(<<Bol,
          Alt(<<Lit(<<"M","e","r","g","e"," ","p","u","l","l"," ",
                      "r","e","q","u","e","s","t">>),
                Cat(<<Alt(<<Cat(<<Lit(<<"M","e","r","g","e"," ">>), AnyText,
                                  Lit(<<" ","i","n","t","o"," ">>), AnyText>>),
                            Cat(<<Lit(<<"M","e","r","g","e"," ",
                                        "b","r","a","n","c","h"," ">>), AnyText>>)>>),
                      NewlinesEnd>>)>>)>>)

\* ^(Merge tag (.*?))(?:\r?\n)*$
PatMergeTag ==
    Cat(<<Bol, Lit(<<"M","e","r","g","e"," ","t","a","g"," ">>), AnyText,
          NewlinesEnd>>)

\* ^(R|r)evert (.*)
PatRevert ==
    Cat(<<Bol, Alt(<<Lit(<<"R">>), Lit(<<"r">>)>>),
          Lit(<<"e","v","e","r","t"," ">>), AnyText>>)

\* ^(Merged (.*?)(in|into) (.*)|Merged PR (.*): (.*))$
PatMerged ==
    Cat(<<Bol,
          Alt(<<Cat(<<Lit(<<"M","e","r","g","e","d"," ">>), AnyText,
                      Alt(<<Lit(<<"i","n">>), Lit(<<"i","n","t","o">>)>>),
                      Lit(<<" ">>), AnyText>>),
                Cat(<<Lit(<<"M","e","r","g","e","d"," ","P","R"," ">>), AnyText,
                      Lit(<<":"," ">>), AnyText>>)>>),
          Eol>>)

\* ^Merge remote-tracking branch(\s*)(.*)$
PatRemoteTracking ==
    Cat(<<Bol, Lit(<<"M","e","r","g","e"," ","r","e","m","o","t","e","-",
                     "t","r","a","c","k","i","n","g"," ",
                     "b","r","a","n","c","h">>),
          Star(Set(Whitespace)), AnyText, Eol>>)

\* ^Automatic merge(.*)$
PatAutomaticMerge ==
    Cat(<<Bol, Lit(<<"A","u","t","o","m","a","t","i","c"," ",
                     "m","e","r","g","e">>), AnyText, Eol>>)

\* ^Auto-merged (.*?) into (.*)$
PatAutoMerged ==
    Cat(<<Bol, Lit(<<"A","u","t","o","-","m","e","r","g","e","d"," ">>), AnyText,
          Lit(<<" ","i","n","t","o"," ">>), AnyText, Eol>>)

\* The bump pattern with a capital B only.
PatBump_CapitalOnly ==
    Cat(<<Lit(<<"B","u","m","p"," ">>), NonSpaces,
          Lit(<<" ","f","r","o","m"," ">>), NonSpaces,
          Lit(<<" ","t","o"," ">>), NonSpaces>>)

\* [Bb]ump [^\s]+ from [^\s]+ to [^\s]+
PatBump ==
    Cat(<<Set({"B", "b"}), Lit(<<"u","m","p"," ">>), NonSpaces,
          Lit(<<" ","f","r","o","m"," ">>), NonSpaces,
          Lit(<<" ","t","o"," ">>), NonSpaces>>)

\* The pattern with the "|" that ends the revert line left out: the adjacent
\* string literals join, and the revert alternative runs into the next one.
IGNORE_COMMIT_PATTERNS_Unjoined ==
    Alt(<<PatMerge, PatMergeTag, Cat(<<PatRevert, PatMerged>>),
          PatRemoteTracking, PatAutomaticMerge, PatAutoMerged, PatBump>>)

IGNORE_COMMIT_PATTERNS ==
    Alt(<<PatMerge, PatMergeTag, PatRevert, PatMerged, PatRemoteTracking,
          PatAutomaticMerge, PatAutoMerged, PatBump>>)

(***************************************************************************)
(* The process state                                                       *)
(***************************************************************************)
VARIABLES
    argv,             \* the command line, as given (an absent option is <<>>)
    args,             \* the Namespace get_args returns
    world,            \* what the file system / the git helper answers
    initial_environ,  \* COMMIT_HEADER_MAX_LENGTH as the process inherited it
    environ,          \* os.environ["COMMIT_HEADER_MAX_LENGTH"]: <<>> or <<text>>
    environ_writes,   \* the values main has written to it, in order
    config,           \* config.quiet, config.verbose
    pc,               \* the position of main
    commit_messages,  \* the message(s) obtained from the source
    strip_comments,   \* the strip_comments argument of _handle_commit_message
    next_message,     \* the loop position of _handle_multiple_commit_messages
    has_error,        \* its sticky flag
    console,          \* the calls made to console.* and print, in order
    lint_calls,       \* the calls made to lint_commit_message, in order
    exit_code         \* <<>> while running, then <<code>>

vars == <<argv, args, world, initial_environ, environ, environ_writes, config, pc,
          commit_messages, strip_comments, next_message, has_error, console,
          lint_calls, exit_code>>

\* An optional value: None is <<>>, a value v is <<v>>.
None == <<>>
Some(v) == <<v>>
\* Python truthiness of an optional string: None and "" are false.
Truthy(opt) == opt # None /\ opt[1] # <<>>

(***************************************************************************)
(* str(int) and int(str)                                                   *)
(***************************************************************************)
DigitChars == <<"0","1","2","3","4","5","6","7","8","9">>

RECURSIVE NatToStr(_)
NatToStr(n) ==
    IF n < 10 THEN <<DigitChars[n + 1]>>
    ELSE NatToStr(n \div 10) \o <<DigitChars[(n % 10) + 1]>>

\* str(n)
IntToStr(n) == IF n < 0 THEN <<"-">> \o NatToStr(-n) ELSE NatToStr(n)

DigitValue(c) == CHOOSE d \in 0..9 : DigitChars[d + 1] = c
IsDigit(c) == \E d \in 0..9 : DigitChars[d + 1] = c

RECURSIVE DigitsToNat(_)
DigitsToNat(s) ==
    IF s = <<>> THEN 0
    ELSE 10 * DigitsToNat(SubSeq(s, 1, Len(s) - 1)) + DigitValue(s[Len(s)])

\* int(text) accepts surrounding whitespace, one sign and decimal digits;
\* anything else raises ValueError.
Unsigned(s) == IF s # <<>> /\ s[1] \in {"+", "-"} THEN Tail(s) ELSE s
IsIntLiteral(text) ==
    LET u == Unsigned(Strip(text))
    IN  u # <<>> /\ \A i \in DOMAIN u : IsDigit(u[i])
StrToInt(text) ==
    LET s == Strip(text)
    IN  IF s # <<>> /\ s[1] = "-" THEN 0 - DigitsToNat(Unsigned(s))
        ELSE DigitsToNat(Unsigned(s))

\* The maximum as a constant of the module, read once at import.
get_header_max_length_Constant == DEFAULT_HEADER_MAX_LENGTH

\* get_header_max_length(): int(os.environ.get(NAME, DEFAULT)).
get_header_max_length_raises == environ # None /\ ~IsIntLiteral(environ[1])
get_header_max_length ==
    IF environ = None THEN DEFAULT_HEADER_MAX_LENGTH ELSE StrToInt(environ[1])


(***************************************************************************)
(* The linter (commitlint.linter): preprocessing, header grammar, rules    *)
(***************************************************************************)
\* The violations the rule engine can record.
HEADER_FORMAT_ERROR  == "header must match format type(scope): subject"
TYPE_ERROR           == "type must be one of the commit types"
SUBJECT_PERIOD_ERROR == "subject must not end with a period"
SUBJECT_CASE_ERROR   == "subject must start with a lowercase letter"
HEADER_LENGTH_ERROR  == "header must not exceed the maximum length"
BODY_SEPARATION_ERROR == "header and body must be separated by a blank line"
\* messages.py
VALIDATION_FAILED     == "VALIDATION_FAILED"
VALIDATION_SUCCESSFUL == "VALIDATION_SUCCESSFUL"

StartsWith(s, p) == Len(p) <= Len(s) /\ SubSeq(s, 1, Len(p)) = p

\* stripComments: drops the lines beginning with "#".
remove_comments(message) ==
    JoinLines(SelectSeq(SplitLines(message, 1),
                        LAMBDA line : ~StartsWith(line, <<"#">>)))

\* stripDiff: drops everything from the first "diff --git" line on.
DiffMarker == <<"d","i","f","f"," ","-","-","g","i","t">>
RECURSIVE BeforeDiff(_)
BeforeDiff(lines) ==
    IF lines = <<>> \/ StartsWith(lines[1], DiffMarker) THEN <<>>
    ELSE <<lines[1]>> \o BeforeDiff(Tail(lines))
remove_diff_from_commit_message(message) ==
    Strip(JoinLines(BeforeDiff(SplitLines(message, 1))))

\* The preprocessed message of one lint call.
Preprocess(message, strip) ==
    Strip(IF strip THEN remove_comments(message) ELSE message)

\* isExempt
is_ignored(message) == ReMatch(IGNORE_COMMIT_PATTERNS, message)

\* splitHeaderBody: the first line, and the lines after it.
HeaderOf(message) == SplitLines(message, 1)[1]
RestLines(message) == Tail(SplitLines(message, 1))

\* ^<type>(\(<scope>\))?(!)?: <subject>$
TypeChar == NotSet(Whitespace \cup {"(", ":"})
ScopePart == Opt(Cat(<<Lit(<<"(">>), Plus(NotSet({")"})), Lit(<<")">>)>>))
BeforeSubject == Cat(<<ScopePart, Opt(Lit(<<"!">>)), Lit(<<":", " ">>)>>)
SubjectPart == Cat(<<NotSet(Whitespace), AnyText, Eol>>)
HEADER_PATTERN == Cat(<<Bol, Plus(TypeChar), BeforeSubject, SubjectPart>>)

\* The fields the match captures: the type is the longest prefix of type
\* characters after which the rest of the pattern still matches (greedy).
TypeEnds(header) ==
    {k \in Ends(Cat(<<Bol, Plus(TypeChar)>>), header, {1}) :
        Ends(Cat(<<BeforeSubject, SubjectPart>>), header, {k}) # {}}
ParseHeader(header) ==
    IF TypeEnds(header) = {} THEN [ok |-> FALSE, type |-> <<>>, subject |-> <<>>]
    ELSE LET k == CHOOSE e \in TypeEnds(header) :
                     \A o \in TypeEnds(header) : o <= e
             p == CHOOSE e \in Ends(BeforeSubject, header, {k}) :
                     Ends(SubjectPart, header, {e}) # {}
         IN  [ok |-> TRUE,
              type |-> SubSeq(header, 1, k - 1),
              subject |-> SubSeq(header, p, Len(header))]

InVocabulary(type) == \E i \in DOMAIN COMMIT_TYPES : COMMIT_TYPES[i] = type

\* Rule 2: header shape, then the field rules.
HeaderRules(header) ==
    LET f == ParseHeader(header)
    IN  IF ~f.ok THEN <<HEADER_FORMAT_ERROR>>
        ELSE (IF InVocabulary(f.type) THEN <<>> ELSE <<TYPE_ERROR>>)
          \o (IF f.subject[Len(f.subject)] = "." THEN <<SUBJECT_PERIOD_ERROR>>
              ELSE <<>>)
          \o (IF f.subject[1] \in UpperLetters THEN <<SUBJECT_CASE_ERROR>>
              ELSE <<>>)

\* Rule 3: header length against the configured maximum.
LengthRule(header, max_length) ==
    IF Len(header) > max_length THEN <<HEADER_LENGTH_ERROR>> ELSE <<>>

\* Rule 4: a body must be separated from the header by a blank line.
BodyExists(rest) == \E i \in DOMAIN rest : Strip(rest[i]) # <<>>
BodyRule(rest) ==
    IF BodyExists(rest) /\ Strip(rest[1]) # <<>>
    THEN <<BODY_SEPARATION_ERROR>> ELSE <<>>

\* A rule engine that stops at the first rule that fails.
run_rules_FailFast(message, max_length) ==
    IF HeaderRules(HeaderOf(message)) # <<>>
    THEN HeaderRules(HeaderOf(message))
    ELSE IF LengthRule(HeaderOf(message), max_length) # <<>>
    THEN LengthRule(HeaderOf(message), max_length)
    ELSE BodyRule(RestLines(message))

\* The rule engine: every rule runs, in order, and the violations add up.
run_rules(message, max_length) ==
    HeaderRules(HeaderOf(message))
      \o LengthRule(HeaderOf(message), max_length)
      \o BodyRule(RestLines(message))

\* lint_commit_message(commit_message, skip_detail, strip_comments), with the
\* header maximum it reads: success, the errors returned, and (for the
\* record of the call) whether the message was exempt and what the rule
\* engine recorded.
lint_commit_message(commit_message, skip_detail, strip, max_length) ==
    LET message == Preprocess(commit_message, strip)
        ignored == is_ignored(message)
        found   == IF ignored THEN <<>> ELSE run_rules(message, max_length)
    IN  [success    |-> found = <<>>,
         errors     |-> IF skip_detail /\ found # <<>>
                        THEN <<VALIDATION_FAILED>> ELSE found,
         ignored    |-> ignored,
         violations |-> found,
         header_len |-> Len(HeaderOf(message))]

(***************************************************************************)
(* The inputs: messages, command lines, and what the outside answers       *)
(***************************************************************************)
\* feat: add login
MsgValid ==
    <<"f","e","a","t",":"," ","a","d","d"," ","l","o","g","i","n">>
\* Feat: add login
MsgBadType ==
    <<"F","e","a","t",":"," ","a","d","d"," ","l","o","g","i","n">>
\* feat add login
MsgNoColon ==
    <<"f","e","a","t"," ","a","d","d"," ","l","o","g","i","n">>
\* feat: add login\nSome body text
MsgBodyAdjacent ==
    <<"f","e","a","t",":"," ","a","d","d"," ","l","o","g","i","n",NL,"S",
      "o","m","e"," ","b","o","d","y"," ","t","e","x","t">>
\* feat: add login\n\nSome body text
MsgBodySeparated ==
    <<"f","e","a","t",":"," ","a","d","d"," ","l","o","g","i","n",NL,NL,
      "S","o","m","e"," ","b","o","d","y"," ","t","e","x","t">>
\* feat(scope)!: breaking change
MsgScopeBreaking ==
    <<"f","e","a","t","(","s","c","o","p","e",")","!",":"," ","b","r","e",
      "a","k","i","n","g"," ","c","h","a","n","g","e">>
\* feat: Add login
MsgUpperSubject ==
    <<"f","e","a","t",":"," ","A","d","d"," ","l","o","g","i","n">>
\* feat: add login.
MsgPeriod ==
    <<"f","e","a","t",":"," ","a","d","d"," ","l","o","g","i","n",".">>
\* feat add login\nbody
MsgAllThree ==
    <<"f","e","a","t"," ","a","d","d"," ","l","o","g","i","n",NL,"b","o",
      "d","y">>
\* Merge pull request #1 from x/y
MsgMergePR ==
    <<"M","e","r","g","e"," ","p","u","l","l"," ","r","e","q","u","e","s",
      "t"," ","#","1"," ","f","r","o","m"," ","x","/","y">>
\* Merge branch 'dev'\n
MsgMergeBranch ==
    <<"M","e","r","g","e"," ","b","r","a","n","c","h"," ","'","d","e","v",
      "'",NL>>
\* Revert "feat: x"
MsgRevert ==
    <<"R","e","v","e","r","t"," ","\"","f","e","a","t",":"," ","x","\"">>
\* revert x\nbody
MsgRevertBody ==
    <<"r","e","v","e","r","t"," ","x",NL,"b","o","d","y">>
\* Bump lodash from 1.0.0 to 1.0.1
MsgBumpExample ==
    <<"B","u","m","p"," ","l","o","d","a","s","h"," ","f","r","o","m"," ",
      "1",".","0",".","0"," ","t","o"," ","1",".","0",".","1">>
\* feat: add login\n# Please enter the commit message
MsgCommented ==
    <<"f","e","a","t",":"," ","a","d","d"," ","l","o","g","i","n",NL,"#",
      " ","P","l","e","a","s","e"," ","e","n","t","e","r"," ","t","h",
      "e"," ","c","o","m","m","i","t"," ","m","e","s","s","a","g","e">>
\* # Please enter the commit message
MsgCommentOnly ==
    <<"#"," ","P","l","e","a","s","e"," ","e","n","t","e","r"," ","t","h",
      "e"," ","c","o","m","m","i","t"," ","m","e","s","s","a","g","e">>
\*   feat: add login\n\n
MsgUntrimmed ==
    <<" "," ","f","e","a","t",":"," ","a","d","d"," ","l","o","g","i","n",
      NL,NL>>
\* # note\nRevert it
MsgRevertCommented ==
    <<"#"," ","n","o","t","e",NL,"R","e","v","e","r","t"," ","i","t">>

\* Bounds of the model.
MaxFlag == 6        \* --header-max-length ranges over -1..MaxFlag, or is absent
MaxRange == 2       \* a hash range resolves to at most MaxRange messages

\* A header of exactly n characters: "fix: aaa..." from 6 characters on, a bare
\* word below.
Padded(n) ==
    IF n >= 6 THEN <<"f","i","x",":"," ">> \o Repeat("a", n - 5)
    ELSE Repeat("a", n)
PaddedLengths ==
    (1..(MaxFlag + 1))
        \cup {DEFAULT_HEADER_MAX_LENGTH, DEFAULT_HEADER_MAX_LENGTH + 1}

\* A revert header longer than every maximum used here.
MsgLongRevert ==
    <<"R","e","v","e","r","t"," ">>
        \o Repeat("x", DEFAULT_HEADER_MAX_LENGTH)

\* <bump> <pkg> from <v1> to <v2>
BumpWords == {<<"B","u","m","p">>, <<"b","u","m","p">>,
              <<"B","U","M","P">>, <<"b","u","m","P">>}
BumpPackages == {<<"a">>, <<"l","o","d","a","s","h">>}
BumpVersions == {<<"1",".","0">>}
BumpMessage(word, pkg, v1, v2) ==
    word \o <<" ">> \o pkg \o <<" ","f","r","o","m"," ">> \o v1
         \o <<" ","t","o"," ">> \o v2
BumpMessages ==
    {BumpMessage(w, p, v1, <<"2">>) :
        w \in BumpWords, p \in BumpPackages, v1 \in BumpVersions}

ExemptExamples ==
    {MsgMergePR, MsgMergeBranch, MsgRevert, MsgRevertBody, MsgBumpExample,
     MsgLongRevert}
PlainMessages ==
    {MsgValid, MsgBadType, MsgNoColon, MsgBodyAdjacent, MsgBodySeparated,
     MsgScopeBreaking, MsgUpperSubject, MsgPeriod, MsgAllThree}
CommentedMessages ==
    {MsgCommented, MsgCommentOnly, MsgUntrimmed, MsgRevertCommented}

LiteralMessages ==
    PlainMessages \cup ExemptExamples \cup BumpMessages
        \cup {Padded(n) : n \in PaddedLengths} \cup {<<>>, MsgUntrimmed}
FileContents ==
    CommentedMessages
        \cup {MsgValid, MsgNoColon, MsgAllThree, MsgRevert, Padded(MaxFlag),
              Padded(MaxFlag + 1)}
HashMessages ==
    CommentedMessages
        \cup {MsgValid, MsgBodyAdjacent, MsgAllThree, MsgMergePR,
              Padded(MaxFlag), Padded(MaxFlag + 1)}
RangeMessages == {MsgValid, MsgAllThree, MsgRevertBody}

\* The lists of at most n range messages.
RECURSIVE ListsUpTo(_)
ListsUpTo(n) ==
    IF n = 0 THEN {<<>>}
    ELSE ListsUpTo(n - 1)
           \cup {Append(l, m) : l \in {k \in ListsUpTo(n - 1) : Len(k) = n - 1},
                                m \in RangeMessages}

FilePath == <<"M","S","G">>
CommitHash == <<"a","b","c","1">>

\* What the outside answers when the source is consulted: the exception
\* raised, or "ok" and the text(s).
Answer(outcome, payload) == [outcome |-> outcome, payload |-> payload]
FileErrors == {"FileNotFoundError", "PermissionError", "IsADirectoryError",
               "UnicodeDecodeError"}

\* The four sources of the required, mutually exclusive argument group, each
\* with the answers the outside can give.
Source(message, file, hash, from_hash, answer) ==
    [commit_message |-> message, file |-> file, hash |-> hash,
     from_hash |-> from_hash, answer |-> answer]
Sources ==
    {Source(Some(m), None, None, None, Answer("unused", <<>>)) :
        m \in LiteralMessages}
    \cup {Source(None, Some(FilePath), None, None, Answer("ok", <<c>>)) :
        c \in FileContents}
    \cup {Source(None, Some(FilePath), None, None, Answer(e, <<>>)) :
        e \in FileErrors}
    \cup {Source(None, Some(<<>>), None, None, Answer("unused", <<>>))}
    \cup {Source(None, None, Some(CommitHash), None, Answer("ok", <<m>>)) :
        m \in HashMessages}
    \cup {Source(None, None, Some(CommitHash), None,
                 Answer("CommitlintException", <<>>))}
    \cup {Source(None, None, Some(<<>>), None, Answer("unused", <<>>))}
    \cup {Source(None, None, None, Some(CommitHash), Answer("ok", l)) :
        l \in ListsUpTo(MaxRange)}
    \cup {Source(None, None, None, Some(CommitHash),
                 Answer("CommitlintException", <<>>))}

FlagValues == {None} \cup {Some(n) : n \in (0 - 1)..MaxFlag}
EnvPresets == {None, Some(<<"3">>), Some(<<"a","b","c">>)}
Verbosity == {<<FALSE, FALSE>>, <<TRUE, FALSE>>, <<FALSE, TRUE>>}

CommandLines ==
    {[source |-> src, skip_detail |-> sd, hide_input |-> hi,
      quiet |-> qv[1], verbose |-> qv[2], header_max_length |-> f] :
        src \in Sources, sd \in BOOLEAN, hi \in BOOLEAN, qv \in Verbosity,
        f \in FlagValues}

(***************************************************************************)
(* cli.py                                                                  *)
(***************************************************************************)
\* get_args: the Namespace of a command line, with argparse's defaults.
get_args(cmd) ==
    [commit_message    |-> cmd.source.commit_message,
     file              |-> cmd.source.file,
     hash              |-> cmd.source.hash,
     from_hash         |-> cmd.source.from_hash,
     to_hash           |-> <<"H","E","A","D">>,
     skip_detail       |-> cmd.skip_detail,
     hide_input        |-> cmd.hide_input,
     quiet             |-> cmd.quiet,
     verbose           |-> cmd.verbose,
     header_max_length |-> IF cmd.header_max_length = None
                           THEN 72
                           ELSE cmd.header_max_length[1]]

\* One call of console.error / success / verbose, of print, or the
\* interpreter's traceback of an uncaught exception: the function, the text
\* (or format) and the value formatted into it.
Out(fn, text, value) == [fn |-> fn, text |-> text, value |-> value]

\* _show_errors without the return that follows the generic message.
_show_errors_NoReturn(commit_message, errors, skip_detail, hide_input) ==
    (IF hide_input THEN <<>>
     ELSE <<Out("error", "Input:",
                remove_diff_from_commit_message(commit_message))>>)
    \o (IF skip_detail THEN <<Out("error", VALIDATION_FAILED, <<>>)>> ELSE <<>>)
    \o <<Out("error", "Found error(s):", IntToStr(Len(errors)))>>
    \o [i \in 1..Len(errors) |-> Out("error", errors[i], <<>>)]

\* _show_errors: the console calls it makes.
_show_errors(commit_message, errors, skip_detail, hide_input) ==
    (IF hide_input THEN <<>>
     ELSE <<Out("error", "Input:",
                remove_diff_from_commit_message(commit_message))>>)
    \o (IF skip_detail THEN <<Out("error", VALIDATION_FAILED, <<>>)>>
        ELSE <<Out("error", "Found error(s):", IntToStr(Len(errors)))>>
               \o [i \in 1..Len(errors) |-> Out("error", errors[i], <<>>)])

\* One call of lint_commit_message, as recorded.
LintCall(message, skip_detail, strip, result) ==
    [message |-> message, skip_detail |-> skip_detail,
     strip_comments |-> strip, max_length |-> get_header_max_length,
     result |-> result]

Init ==
    /\ argv \in CommandLines
    /\ args = get_args(argv)
    /\ world = argv.source.answer
    /\ initial_environ \in EnvPresets
    /\ environ = initial_environ
    /\ environ_writes = <<>>
    /\ config = [quiet |-> FALSE, verbose |-> FALSE]
    /\ pc = "main"
    /\ commit_messages = <<>>
    /\ strip_comments = FALSE
    /\ next_message = 1
    /\ has_error = FALSE
    /\ console = <<>>
    /\ lint_calls = <<>>
    /\ exit_code = None

\* The flag written only when the environment does not hold a value yet.
NewEnviron_SetDefault(old, header_max_length) ==
    IF old = None THEN Some(IntToStr(header_max_length)) ELSE old

\* The file branch without strip_comments=True.
StripCommentsOfFile_Default == FALSE

\* The range handler without the exit on has_error.
MultipleExitCode_Ignored(error_seen) == 0

\* main, lines 231-232: the value written to the environment.
NewEnviron(old, header_max_length) == Some(IntToStr(header_max_length))

\* The strip_comments argument main passes for a file (line 249), and the
\* default of the parameter (line 167) used for a hash and a literal message.
StripCommentsOfFile == TRUE
StripCommentsDefault == FALSE

\* _handle_commit_message, lines 184-189: return on success, sys.exit(1)
\* after the errors were shown.
SingleExitCode(success) == IF success THEN 0 ELSE 1

\* _handle_multiple_commit_messages, lines 218-221.
MultipleExitCode(error_seen) == IF error_seen THEN 1 ELSE 0

\* main, lines 228-240: the header maximum goes to the environment.
SetHeaderMaxLength ==
    /\ pc = "main"
    /\ environ' = NewEnviron(environ, args.header_max_length)
    /\ environ_writes' = Append(environ_writes, IntToStr(args.header_max_length))
    /\ config' = [quiet |-> args.quiet, verbose |-> args.verbose]
    /\ console' = console \o
         <<Out("verbose", "Setting header max length to:",
               IntToStr(args.header_max_length)),
           Out("print", "Setting header max length to:",
               IntToStr(args.header_max_length)),
           Out("verbose", "starting commitlint", <<>>)>>
    /\ pc' = "source"
    /\ UNCHANGED <<argv, args, world, initial_environ, commit_messages,
                   strip_comments, next_message, has_error, lint_calls,
                   exit_code>>


\* main, lines 242-244, and _get_commit_message_from_file: the file is read
\* and stripped; FileNotFoundError is caught by main (lines 277-279), any
\* other error of open() or read() is not.
ReadFile ==
    /\ pc = "source"
    /\ Truthy(args.file)
    /\ LET said == console \o
                     <<Out("verbose", "commit message source: file", <<>>),
                       Out("verbose", "reading commit message from file",
                           args.file[1])>>
       IN  \/ /\ world.outcome = "ok"
              /\ commit_messages' = <<Strip(world.payload[1])>>
              /\ strip_comments' = StripCommentsOfFile
              /\ console' = said
              /\ pc' = "handle"
              /\ UNCHANGED exit_code
           \/ /\ world.outcome = "FileNotFoundError"
              /\ console' = said \o
                     <<Out("error", "Error: file not found", args.file[1])>>
              /\ exit_code' = Some(1)
              /\ pc' = "exited"
              /\ UNCHANGED <<commit_messages, strip_comments>>
           \/ /\ world.outcome \notin {"ok", "FileNotFoundError"}
              /\ console' = said \o <<Out("traceback", world.outcome, <<>>)>>
              /\ exit_code' = Some(1)
              /\ pc' = "exited"
              /\ UNCHANGED <<commit_messages, strip_comments>>
    /\ UNCHANGED <<argv, args, world, initial_environ, environ, environ_writes,
                   config, next_message, has_error, lint_calls>>

\* main, lines 251-253: the message of one commit hash; the helper's
\* CommitlintException is caught by main (lines 273-275).
GetCommitMessageOfHash ==
    /\ pc = "source"
    /\ ~Truthy(args.file)
    /\ Truthy(args.hash)
    /\ LET said == console \o
                     <<Out("verbose", "commit message source: hash", <<>>)>>
       IN  \/ /\ world.outcome = "ok"
              /\ commit_messages' = <<world.payload[1]>>
              /\ strip_comments' = StripCommentsDefault
              /\ console' = said
              /\ pc' = "handle"
              /\ UNCHANGED exit_code
           \/ /\ world.outcome = "CommitlintException"
              /\ console' = said \o
                     <<Out("error", "CommitlintException", args.hash[1])>>
              /\ exit_code' = Some(1)
              /\ pc' = "exited"
              /\ UNCHANGED <<commit_messages, strip_comments>>
    /\ UNCHANGED <<argv, args, world, initial_environ, environ, environ_writes,
                   config, next_message, has_error, lint_calls>>

\* main, lines 257-261: the messages of a hash range.
GetCommitMessagesOfHashRange ==
    /\ pc = "source"
    /\ ~Truthy(args.file)
    /\ ~Truthy(args.hash)
    /\ Truthy(args.from_hash)
    /\ LET said == console \o
                     <<Out("verbose", "commit message source: hash range", <<>>)>>
       IN  \/ /\ world.outcome = "ok"
              /\ commit_messages' = world.payload
              /\ has_error' = FALSE
              /\ next_message' = 1
              /\ console' = said
              /\ pc' = "loop"
              /\ UNCHANGED exit_code
           \/ /\ world.outcome = "CommitlintException"
              /\ console' = said \o
                     <<Out("error", "CommitlintException", args.from_hash[1])>>
              /\ exit_code' = Some(1)
              /\ pc' = "exited"
              /\ UNCHANGED <<commit_messages, has_error, next_message>>
    /\ UNCHANGED <<argv, args, world, initial_environ, environ, environ_writes,
                   config, strip_comments, lint_calls>>

\* main, lines 267-269: the positional message, stripped.  When --file,
\* --hash or --from-hash was given the empty string, this branch is taken
\* with args.commit_message None, and None.strip() raises AttributeError.
DirectMessage ==
    /\ pc = "source"
    /\ ~Truthy(args.file)
    /\ ~Truthy(args.hash)
    /\ ~Truthy(args.from_hash)
    /\ LET said == console \o
                     <<Out("verbose", "commit message source: direct message",
                           <<>>)>>
       IN  \/ /\ args.commit_message # None
              /\ commit_messages' = <<Strip(args.commit_message[1])>>
              /\ strip_comments' = StripCommentsDefault
              /\ console' = said
              /\ pc' = "handle"
              /\ UNCHANGED exit_code
           \/ /\ args.commit_message = None
              /\ console' = said \o <<Out("traceback", "AttributeError", <<>>)>>
              /\ exit_code' = Some(1)
              /\ pc' = "exited"
              /\ UNCHANGED <<commit_messages, strip_comments>>
    /\ UNCHANGED <<argv, args, world, initial_environ, environ, environ_writes,
                   config, next_message, has_error, lint_calls>>

\* _handle_commit_message: lint the message; success is reported and main
\* returns (exit code 0), failure is shown and ends in sys.exit(1).
HandleCommitMessage ==
    /\ pc = "handle"
    /\ IF get_header_max_length_raises
       THEN /\ console' = console \o <<Out("traceback", "ValueError", <<>>)>>
            /\ exit_code' = Some(1)
            /\ UNCHANGED lint_calls
       ELSE LET result == lint_commit_message(commit_messages[1],
                              args.skip_detail, strip_comments,
                              get_header_max_length)
            IN  /\ lint_calls' = Append(lint_calls,
                       LintCall(commit_messages[1], args.skip_detail,
                                strip_comments, result))
                /\ console' = console \o
                       (IF result.success
                        THEN <<Out("success", VALIDATION_SUCCESSFUL, <<>>)>>
                        ELSE _show_errors(commit_messages[1], result.errors,
                                          args.skip_detail, args.hide_input))
                /\ exit_code' = Some(SingleExitCode(result.success))
    /\ pc' = "exited"
    /\ UNCHANGED <<argv, args, world, initial_environ, environ, environ_writes,
                   config, commit_messages, strip_comments, next_message, has_error>>

\* _handle_multiple_commit_messages, lines 208-216: one turn of the loop.
HandleNextMessage ==
    /\ pc = "loop"
    /\ next_message <= Len(commit_messages)
    /\ IF get_header_max_length_raises
       THEN /\ console' = console \o <<Out("traceback", "ValueError", <<>>)>>
            /\ exit_code' = Some(1)
            /\ pc' = "exited"
            /\ UNCHANGED <<lint_calls, has_error, next_message>>
       ELSE LET message == commit_messages[next_message]
                result == lint_commit_message(message, args.skip_detail,
                              StripCommentsDefault, get_header_max_length)
            IN  /\ lint_calls' = Append(lint_calls,
                       LintCall(message, args.skip_detail,
                                StripCommentsDefault, result))
                /\ IF result.success
                   THEN /\ console' = console \o
                              <<Out("verbose", "lint success", <<>>)>>
                        /\ UNCHANGED has_error
                   ELSE /\ has_error' = TRUE
                        /\ console' = console \o
                              _show_errors(message, result.errors,
                                           args.skip_detail, args.hide_input)
                              \o <<Out("error", "", <<>>)>>
                /\ next_message' = next_message + 1
                /\ UNCHANGED <<pc, exit_code>>
    /\ UNCHANGED <<argv, args, world, initial_environ, environ, environ_writes,
                   config, commit_messages, strip_comments>>

\* The range handler leaving the loop at the first failure.
FinishMultiple_AtFirstError ==
    /\ pc = "loop"
    /\ has_error \/ next_message > Len(commit_messages)
    /\ exit_code' = Some(MultipleExitCode(has_error))
    /\ console' = console \o
           (IF MultipleExitCode(has_error) = 1 THEN <<>>
            ELSE <<Out("success", VALIDATION_SUCCESSFUL, <<>>)>>)
    /\ pc' = "exited"
    /\ UNCHANGED <<argv, args, world, initial_environ, environ, environ_writes,
                   config, commit_messages, strip_comments, next_message,
                   has_error, lint_calls>>

\* _handle_multiple_commit_messages, lines 218-221: after the loop.
FinishMultiple ==
    /\ pc = "loop"
    /\ next_message > Len(commit_messages)
    /\ exit_code' = Some(MultipleExitCode(has_error))
    /\ console' = console \o
           (IF MultipleExitCode(has_error) = 1 THEN <<>>
            ELSE <<Out("success", VALIDATION_SUCCESSFUL, <<>>)>>)
    /\ pc' = "exited"
    /\ UNCHANGED <<argv, args, world, initial_environ, environ, environ_writes,
                   config, commit_messages, strip_comments, next_message, has_error,
                   lint_calls>>

Next ==
    \/ SetHeaderMaxLength
    \/ ReadFile
    \/ GetCommitMessageOfHash
    \/ GetCommitMessagesOfHashRange
    \/ DirectMessage
    \/ HandleCommitMessage
    \/ HandleNextMessage
    \/ FinishMultiple

Spec == Init /\ [][Next]_vars

(***************************************************************************)
(* Properties                                                              *)
(***************************************************************************)
Exited == pc = "exited"
ExitCode(code) == exit_code = Some(code)
Calls == {lint_calls[i] : i \in DOMAIN lint_calls}
\* The message a call lints, after preprocessing, and its header.
Linted(c) == Preprocess(c.message, c.strip_comments)
\* The header maximum the command line asks for.
Configured ==
    IF argv.header_max_length = None THEN 72 ELSE argv.header_max_length[1]
\* The source can be obtained: a positional message, or a file / a hash / a
\* hash range that the outside answers.
Obtainable == args.commit_message # None \/ world.outcome = "ok"
\* The source was named but the outside raised on it.
ObtainFailed == world.outcome \in FileErrors \cup {"CommitlintException"}
RangeMode == Truthy(args.from_hash)
Said(fn, text) == \E i \in DOMAIN console :
                      console[i].fn = fn /\ console[i].text = text
CountSaid(fn, text) ==
    Cardinality({i \in DOMAIN console :
                    console[i].fn = fn /\ console[i].text = text})
RuleErrors == {HEADER_FORMAT_ERROR, TYPE_ERROR, SUBJECT_PERIOD_ERROR,
               SUBJECT_CASE_ERROR, HEADER_LENGTH_ERROR, BODY_SEPARATION_ERROR}
In(e, errors) == \E i \in DOMAIN errors : errors[i] = e

\* C1: a message that matches an exemption pattern (and each of the merge,
\* revert and bump examples) lints as success with no violation, whatever
\* its header's length, grammar and body separation.
C1_ExemptSucceeds ==
    \A c \in Calls :
        (c.result.ignored \/ \E e \in ExemptExamples : Linted(c) = Strip(e))
            => /\ c.result.success
               /\ c.result.errors = <<>>
               /\ c.result.violations = <<>>
\* An exempt call whose header is over the maximum and outside the grammar.
C1_Witness ==
    \E c \in Calls :
        /\ c.result.ignored /\ c.result.success /\ c.result.errors = <<>>
        /\ c.result.header_len > c.max_length
        /\ ~ParseHeader(HeaderOf(Linted(c))).ok

\* C2: with the maximum configured as N >= 1, a non-exempt message whose
\* header has N + 1 characters fails with the header-length violation (in
\* the returned errors when the detail is not skipped), and one whose header
\* has N characters never has it.
C2_LimitInclusive ==
    \A c \in Calls :
        (Configured >= 1 /\ ~c.result.ignored) =>
            /\ c.result.header_len = Configured + 1 =>
                   /\ ~c.result.success
                   /\ In(HEADER_LENGTH_ERROR, c.result.violations)
                   /\ ~c.skip_detail => In(HEADER_LENGTH_ERROR, c.result.errors)
            /\ c.result.header_len = Configured =>
                   /\ ~In(HEADER_LENGTH_ERROR, c.result.violations)
                   /\ ~In(HEADER_LENGTH_ERROR, c.result.errors)
\* A flag value other than the default, met by a header one character over.
C2_Witness ==
    \E c \in Calls :
        /\ argv.header_max_length # None
        /\ Configured >= 1 /\ Configured # 72
        /\ ~c.result.ignored /\ ~c.skip_detail
        /\ c.result.header_len = Configured + 1
        /\ In(HEADER_LENGTH_ERROR, c.result.errors)

\* C3 (as stated): a finished run has exit code 0 if and only if every
\* processed message linted successfully.
C3_ExitZeroIffAllPass ==
    Exited => (ExitCode(0) <=> \A c \in Calls : c.result.success)
\* C3 (amended): a finished run has exit code 0 if and only if the source
\* was obtained and every message of it linted successfully; every message
\* obtained is linted; the success message is emitted only with exit code 0.
C3_ExitCode ==
    /\ Exited =>
          /\ ExitCode(0) <=> (Obtainable /\ \A c \in Calls : c.result.success)
          /\ ExitCode(1) <=> (~Obtainable \/ \E c \in Calls : ~c.result.success)
          /\ Obtainable => Len(lint_calls) = Len(commit_messages)
          /\ ~Obtainable => lint_calls = <<>>
          /\ Said("success", VALIDATION_SUCCESSFUL) <=> ExitCode(0)
    /\ Said("success", VALIDATION_SUCCESSFUL) => ExitCode(0)
\* A range whose second message fails after the first passed: exit code 1.
C3_Witness ==
    /\ Exited /\ RangeMode /\ ExitCode(1)
    /\ Len(lint_calls) = 2
    /\ lint_calls[1].result.success /\ ~lint_calls[2].result.success

C5_NoShortCircuit ==
    \A c \in Calls :
        LET lines == SplitLines(Linted(c), 1)
            long  == Len(lines[1]) > c.max_length
            close == Len(lines) >= 2 /\ Strip(lines[2]) # <<>>
        IN  (~c.result.ignored /\ ~ReMatch(HEADER_PATTERN, lines[1])) =>
               /\ c.result.violations =
                     <<HEADER_FORMAT_ERROR>>
                       \o (IF long THEN <<HEADER_LENGTH_ERROR>> ELSE <<>>)
                       \o (IF close THEN <<BODY_SEPARATION_ERROR>> ELSE <<>>)
               /\ ~c.skip_detail => c.result.errors = c.result.violations
\* A malformed, over-long header with an unseparated body: three violations.
C5_Witness ==
    \E c \in Calls :
        /\ ~c.skip_detail
        /\ c.result.errors = <<HEADER_FORMAT_ERROR, HEADER_LENGTH_ERROR,
                               BODY_SEPARATION_ERROR>>

\* The calls on a message <word> <pkg> from <v1> to <v2>, word in words.
BumpCalls(words) ==
    {c \in Calls : \E w \in words, p \in BumpPackages, v \in BumpVersions :
                      Linted(c) = BumpMessage(w, p, v, <<"2">>)}
\* C6 (as stated): the message is exempt for every capitalisation of bump.
C6_AnyCapitalisation ==
    \A c \in BumpCalls(BumpWords) : c.result.ignored /\ c.result.success
\* C6 (amended): the message is exempt when the word is "Bump" or "bump".
C6_FirstLetterOnly ==
    \A c \in BumpCalls({<<"B","u","m","p">>, <<"b","u","m","p">>}) :
        c.result.ignored /\ c.result.success /\ c.result.errors = <<>>
\* A "bump ..." message, exempt.
C6_Witness ==
    \E c \in BumpCalls({<<"b","u","m","p">>}) :
        c.result.ignored /\ c.result.success

\* C7: when obtaining the message fails, the run ends with exit code 1, an
\* error message was emitted through console.error, and lint was not called.
C7_ObtainFailureReported ==
    (Exited /\ ObtainFailed) =>
        /\ ExitCode(1)
        /\ \E i \in DOMAIN console : console[i].fn = "error"
        /\ lint_calls = <<>>

\* C8: lint is called with strip_comments exactly when the file branch was
\* taken, which is exactly when --file names the source; and once main has
\* left its dispatch, exactly one of the four source branches was entered.
SourceTexts == {"commit message source: file", "commit message source: hash",
                "commit message source: hash range",
                "commit message source: direct message"}
SourcesEntered ==
    Cardinality({i \in DOMAIN console :
                    console[i].fn = "verbose" /\ console[i].text \in SourceTexts})
C8_StripOnlyForFile ==
    /\ \A c \in Calls :
          /\ c.strip_comments <=> Truthy(args.file)
          /\ c.strip_comments <=> Said("verbose", "commit message source: file")
    /\ SourcesEntered = IF pc \in {"main", "source"} THEN 0 ELSE 1
\* A file whose comment line is dropped by the call.
C8_Witness ==
    \E c \in Calls :
        /\ c.strip_comments /\ Truthy(args.file)
        /\ Linted(c) # Strip(c.message)

\* C9: in hash-range mode the calls are the messages of the range, in order
\* and once each, also after a failure; the flag is set exactly when a call
\* has failed; the exit code is decided only after the last message; there
\* is one report per failing message, in message order; an empty range ends
\* in success.
FailedCalls == SelectSeq(lint_calls, LAMBDA c : ~c.result.success)
InputReports ==
    SelectSeq(console, LAMBDA o : o.fn = "error" /\ o.text = "Input:")
C9_RangeLintsAll ==
    (RangeMode /\ pc \in {"loop", "exited"} /\ Obtainable) =>
        /\ Len(lint_calls) = next_message - 1
        /\ \A i \in DOMAIN lint_calls :
              lint_calls[i].message = commit_messages[i]
        /\ has_error <=> FailedCalls # <<>>
        /\ exit_code # None => Len(lint_calls) = Len(commit_messages)
        /\ Exited => (ExitCode(1) <=> has_error)
        /\ CountSaid("error", "") = Len(FailedCalls)
        /\ ~args.hide_input =>
              /\ Len(InputReports) = Len(FailedCalls)
              /\ \A i \in DOMAIN InputReports :
                    InputReports[i].value =
                        remove_diff_from_commit_message(FailedCalls[i].message)
        /\ (Exited /\ commit_messages = <<>>) => ExitCode(0)
\* A range whose first message fails and whose second is still linted.
C9_Witness ==
    /\ RangeMode /\ Exited /\ ExitCode(1)
    /\ Len(lint_calls) = 2
    /\ ~lint_calls[1].result.success
    /\ lint_calls[2].result.success

\* C10: main writes the header maximum to the environment once, before any
\* lint call, with the value of --header-max-length (72 when absent); every
\* lint call reads that value, whatever the environment held at the start.
C10_FlagOverridesEnvironment ==
    /\ Len(environ_writes) = IF pc = "main" THEN 0 ELSE 1
    /\ lint_calls # <<>> => Len(environ_writes) = 1
    /\ \A i \in DOMAIN environ_writes :
          /\ environ_writes[i] = IntToStr(Configured)
          /\ environ = Some(environ_writes[i])
    /\ \A c \in Calls : c.max_length = Configured
    /\ pc # "main" => (~get_header_max_length_raises
                       /\ get_header_max_length = Configured)
\* A run that inherited a maximum of 3, was given no flag, and linted a
\* header between the two values without a length violation.
C10_Witness ==
    /\ initial_environ = Some(<<"3">>)
    /\ argv.header_max_length = None
    /\ \E c \in Calls :
          /\ c.result.header_len > 3
          /\ c.max_length = 72
          /\ ~c.result.ignored /\ c.result.success

=============================================================================
